---- MODULE Spec2Model ----
(***************************************************************************)
(* Model of custom_components/biketrax/__init__.py: the options migration, *)
(* the config-entry setup/unload lifecycle with the push background task,  *)
(* and the entity base class.                                              *)
(***************************************************************************)
EXTENDS Integers, Sequences, FiniteSets, TLC

\* ------------------------------------------------------------------ bounds
MaxSetups == 3      \* async_setup_entry calls (each allocates fresh objects)
MaxMigCalls == 2    \* direct calls of the migration callback per entry
MaxEntities == 2    \* BikeTraxBaseEntity instances
MaxUpdates == 1     \* coordinator updates delivered to one entity

\* --------------------------------------------------------------- constants
CONF_USERNAME == "username"
CONF_PASSWORD == "password"
CONF_READ_ONLY == "read_only"
DATA_DEVICE == "device"
DATA_TRIP == "trip"
DATA_SUBSCRIPTION == "subscription"
BIKETRAX_DOMAIN == "biketrax"

\* Python's False / True as stored in a config mapping.
PyFalse == "False"
PyTrue == "True"

Entries == {"e1", "e2"}

\* ------------------------------------------------- dicts (insertion order)
\* A dict is a sequence of <<key, value>> pairs with distinct keys.
EmptyDict == << >>

\* list(d)
DictKeys(d) == [i \in 1..Len(d) |-> d[i][1]]

\* k in d
Has(d, k) == \E i \in 1..Len(d) : d[i][1] = k

\* d[k]
Get(d, k) == d[CHOOSE i \in 1..Len(d) : d[i][1] = k][2]

\* d[k] = v
DictSet(d, k, v) ==
  IF Has(d, k)
  THEN [i \in 1..Len(d) |-> IF d[i][1] = k THEN <<k, v>> ELSE d[i]]
  ELSE Append(d, <<k, v>>)

\* the value d.pop(k, default) returns
DictPopValue(d, k, default) == IF Has(d, k) THEN Get(d, k) ELSE default

\* d after d.pop(k, default)
DictPopRest(d, k) == SelectSeq(d, LAMBDA p : p[1] # k)

\* dict(a, **b)
RECURSIVE DictMerge(_, _)
DictMerge(a, b) ==
  IF b = << >> THEN a
  ELSE DictMerge(DictSet(a, Head(b)[1], Head(b)[2]), Tail(b))

\* ------------------------------------------------------------- migration
DEFAULT_OPTIONS == << <<CONF_READ_ONLY, PyFalse>> >>

\* The guard of line 42.
MigrationNeeded(data, options) ==
  Has(data, CONF_READ_ONLY) \/ DictKeys(options) # DictKeys(DEFAULT_OPTIONS)

\* Mutant: the flag is moved but left behind in entry.data.
MutMigrateKeepsDataFlag(data, options) ==
  IF MigrationNeeded(data, options)
  THEN [data |-> data,
        options |-> DictSet(DictMerge(DEFAULT_OPTIONS, options), CONF_READ_ONLY,
                            DictPopValue(data, CONF_READ_ONLY, PyFalse))]
  ELSE [data |-> data, options |-> options]

\* Mutant: the options are rebuilt from the defaults alone.
MutMigrateDropsOptions(data, options) ==
  IF MigrationNeeded(data, options)
  THEN [data |-> DictPopRest(data, CONF_READ_ONLY),
        options |-> DictSet(DEFAULT_OPTIONS, CONF_READ_ONLY,
                            DictPopValue(data, CONF_READ_ONLY, PyFalse))]
  ELSE [data |-> data, options |-> options]

\* _async_migrate_options_from_data_if_missing: entry.data and entry.options
\* after the call.
async_migrate_options_from_data_if_missing(data, options) ==
  IF MigrationNeeded(data, options)
  THEN LET merged == DictMerge(DEFAULT_OPTIONS, options)
       IN [data |-> DictPopRest(data, CONF_READ_ONLY),
           options |-> DictSet(merged, CONF_READ_ONLY,
                               DictPopValue(data, CONF_READ_ONLY, PyFalse))]
  ELSE [data |-> data, options |-> options]

\* ------------------------------------------------------------------ state
VARIABLES
  entryData,      \* entry.data of each config entry
  entryOptions,   \* entry.options of each config entry
  migCalls,       \* history: migrations run on the entry
  migPre,         \* history: entry.data / entry.options before the last migration
  entryState,     \* the host's ConfigEntry.state
  setupPc,        \* where async_setup_entry is suspended
  setupLocal,     \* the setup call's locals: the number of its account/coordinators
  unloadPc,       \* where async_unload_entry is suspended
  unloadLocal,    \* the slot async_unload_entry popped (its local `coordinators`)
  lastResult,     \* what the entry's last handler call returned
  callLog,        \* the calls the entry's current (or last) handler made, in order
  hassData,       \* hass.data
  accounts,       \* the Account objects constructed so far
  coords,         \* the coordinator objects constructed so far
  busListeners,   \* EVENT_HOMEASSISTANT_STOP listeners on hass.bus
  onUnload,       \* entry.async_on_unload callbacks: the listeners each removes
  firedListeners, \* history: the listeners the stop event called
  shutdownFired,  \* EVENT_HOMEASSISTANT_STOP has fired
  platformState,  \* the entry's forwarded platforms
  platformSaw,    \* what the platforms found in hass.data[DOMAIN][entry_id]
  entities        \* the BikeTraxBaseEntity objects constructed so far

cfgVars == <<entryData, entryOptions, migCalls, migPre>>
lifeVars == <<entryState, setupPc, setupLocal, unloadPc, unloadLocal, lastResult,
              callLog, hassData, accounts, coords, busListeners, onUnload,
              firedListeners, shutdownFired, platformState, platformSaw>>
vars == <<entryData, entryOptions, migCalls, migPre, entryState, setupPc,
          setupLocal, unloadPc, unloadLocal, lastResult, callLog, hassData,
          accounts, coords, busListeners, onUnload, firedListeners,
          shutdownFired, platformState, platformSaw, entities>>

\* ------------------------------------------------------- initial configs
UserOf(e) == IF e = "e1" THEN "u1" ELSE "u2"
PassOf(e) == IF e = "e1" THEN "p1" ELSE "p2"

\* entry.data as the config flow writes it: username, password, and in the
\* old storage shape the read-only flag; possibly one more key.
DataShapes(e) ==
  LET base == << <<CONF_USERNAME, UserOf(e)>>, <<CONF_PASSWORD, PassOf(e)>> >>
      flag == {base} \cup {Append(base, <<CONF_READ_ONLY, v>>) : v \in {PyFalse, PyTrue}}
  IN flag \cup {Append(d, <<"other", "x">>) : d \in flag}

\* entry.options: any dict over the read-only flag and one further key.
OptionShapes ==
  LET ro == {<<CONF_READ_ONLY, v>> : v \in {PyFalse, PyTrue}}
      ex == <<"extra", "x">>
  IN {EmptyDict, <<ex>>} \cup {<<r>> : r \in ro}
       \cup {<<r, ex>> : r \in ro} \cup {<<ex, r>> : r \in ro}

\* No slot: what a lookup that found nothing holds.
NoSlot == << >>
NoLocal == 0

InitLifecycle ==
  /\ entryState = [e \in Entries |-> "not_loaded"]
  /\ setupPc = [e \in Entries |-> "idle"]
  /\ setupLocal = [e \in Entries |-> NoLocal]
  /\ unloadPc = [e \in Entries |-> "idle"]
  /\ unloadLocal = [e \in Entries |-> NoSlot]
  /\ lastResult = [e \in Entries |-> "none"]
  /\ callLog = [e \in Entries |-> << >>]
  /\ hassData = << >>
  /\ accounts = << >>
  /\ coords = << >>
  /\ busListeners = {}
  /\ onUnload = [e \in Entries |-> {}]
  /\ firedListeners = {}
  /\ shutdownFired = FALSE
  /\ platformState = [e \in Entries |-> "none"]
  /\ platformSaw = [e \in Entries |-> NoSlot]
  /\ entities = << >>

InitHistory ==
  /\ migCalls = [e \in Entries |-> 0]
  /\ migPre = [e \in Entries |-> [data |-> entryData[e], options |-> entryOptions[e]]]

\* ---------------------------------------------- the migration, on an entry
\* hass.config_entries.async_update_entry(entry, data=..., options=...) with the
\* result of the migration; the history variables record the call.
MigrateEntry(e) ==
  LET r == async_migrate_options_from_data_if_missing(entryData[e], entryOptions[e])
  IN /\ entryData' = [entryData EXCEPT ![e] = r.data]
     /\ entryOptions' = [entryOptions EXCEPT ![e] = r.options]
     /\ migPre' = [migPre EXCEPT ![e] = [data |-> entryData[e],
                                          options |-> entryOptions[e]]]
     /\ migCalls' = [migCalls EXCEPT ![e] = @ + 1]

\* The callback called on its own.
Migrate(e) ==
  /\ migCalls[e] < MaxMigCalls
  /\ MigrateEntry(e)
  /\ UNCHANGED lifeVars
  /\ UNCHANGED entities

InitMig ==
  /\ entryData \in [Entries -> UNION {DataShapes(e) : e \in Entries}]
  /\ \A e \in Entries : entryData[e] \in DataShapes(e)
  /\ entryOptions \in [Entries -> OptionShapes]
  /\ InitHistory
  /\ InitLifecycle

NextMig == \E e \in Entries : Migrate(e)

SpecMig == InitMig /\ [][NextMig]_vars


\* ----------------------------------------------------- objects of a setup
\* The k-th async_setup_entry call constructs account k and three coordinators.
DeviceId(k) == 3 * (k - 1) + 1
TripId(k) == 3 * (k - 1) + 2
SubscriptionId(k) == 3 * (k - 1) + 3

\* Account(entry.data[CONF_USERNAME], entry.data[CONF_PASSWORD], session)
NewAccount(e, data) ==
  [username |-> Get(data, CONF_USERNAME), password |-> Get(data, CONF_PASSWORD),
   entry |-> e]

\* A coordinator constructed with (hass, account, entry) by setup call k.
NewCoordinator(kind, a, e, k) ==
  [kind |-> kind, account |-> a, entry |-> e, setup |-> k, refreshed |-> FALSE,
   running |-> FALSE, startCalls |-> 0, stopsByUnload |-> 0, stopsByListener |-> 0]

\* Mutant: the trip and subscription coordinators get the first account ever made.
MutCoordinatorsShareFirstAccount(a, e, k) ==
  << NewCoordinator(DATA_DEVICE, a, e, k),
     NewCoordinator(DATA_TRIP, 1, e, k),
     NewCoordinator(DATA_SUBSCRIPTION, 1, e, k) >>

\* The three coordinators of lines 65-79, all given the same account.
SetupCoordinators(a, e, k) ==
  << NewCoordinator(DATA_DEVICE, a, e, k),
     NewCoordinator(DATA_TRIP, a, e, k),
     NewCoordinator(DATA_SUBSCRIPTION, a, e, k) >>

\* device_coordinator.start_background_task()
StartBackgroundTask(cs, d) ==
  [cs EXCEPT ![d].running = TRUE, ![d].startCalls = @ + 1]

\* await device_coordinator.stop_background_task(), called by async_unload_entry
StopByUnload(cs, d) ==
  [cs EXCEPT ![d].running = FALSE, ![d].stopsByUnload = @ + 1]

\* await device_coordinator.stop_background_task(), called by the _stop listener
StopByListener(cs, d) ==
  [cs EXCEPT ![d].running = FALSE, ![d].stopsByListener = @ + 1]

\* coordinator.async_config_entry_first_refresh() returning normally
Refreshed(cs, c) == [cs EXCEPT ![c].refreshed = TRUE]

\* hass.data.setdefault(DOMAIN, {})
SetDefaultDomain(data) ==
  IF BIKETRAX_DOMAIN \in DOMAIN data THEN data ELSE (BIKETRAX_DOMAIN :> << >>)

\* hass.data[DOMAIN][entry.entry_id] = {DATA_DEVICE: ..., DATA_TRIP: ..., DATA_SUBSCRIPTION: ...}
StoreSlot(data, e, k) ==
  LET slot == (DATA_DEVICE :> DeviceId(k)) @@ (DATA_TRIP :> TripId(k))
                @@ (DATA_SUBSCRIPTION :> SubscriptionId(k))
      d == SetDefaultDomain(data)
  IN [d EXCEPT ![BIKETRAX_DOMAIN] = (e :> slot) @@ @]

\* Mutant: the whole domain dict is dropped instead of one entry's slot.
MutPopClearsDomain(data, e) ==
  [data EXCEPT ![BIKETRAX_DOMAIN] = << >>]

\* hass.data after hass.data[DOMAIN].pop(entry.entry_id)
PopSlot(data, e) ==
  [data EXCEPT ![BIKETRAX_DOMAIN] = [x \in (DOMAIN @) \ {e} |-> @[x]]]

Loaded == IF BIKETRAX_DOMAIN \in DOMAIN hassData
          THEN DOMAIN hassData[BIKETRAX_DOMAIN] ELSE {}
SlotOf(e) == hassData[BIKETRAX_DOMAIN][e]

\* ------------------------------------------------------ async_setup_entry
\* Lines 52-81: migrate, construct the account and the coordinators, and call
\* the device coordinator's first refresh, where the coroutine suspends.
SetupBegin(e) ==
  /\ entryState[e] \in {"not_loaded", "setup_retry"}
  /\ setupPc[e] = "idle"
  /\ unloadPc[e] = "idle"
  /\ Len(accounts) < MaxSetups
  /\ MigrateEntry(e)
  /\ LET k == Len(accounts) + 1
     IN /\ accounts' = Append(accounts, NewAccount(e, entryData'[e]))
        /\ coords' = coords \o SetupCoordinators(k, e, k)
        /\ setupLocal' = [setupLocal EXCEPT ![e] = k]
  /\ setupPc' = [setupPc EXCEPT ![e] = "refresh_device"]
  /\ entryState' = [entryState EXCEPT ![e] = "setup_in_progress"]
  /\ callLog' = [callLog EXCEPT ![e] = <<"refresh_device">>]
  /\ UNCHANGED <<unloadPc, unloadLocal, lastResult, hassData, busListeners,
                 onUnload, firedListeners, shutdownFired, platformState,
                 platformSaw, entities>>

\* Line 98: the _stop listener goes on the bus, its remover into entry.async_on_unload.
RegisterStopListener(e, d) ==
  /\ busListeners' = busListeners \cup {[entry |-> e, dev |-> d]}
  /\ onUnload' = [onUnload EXCEPT ![e] = @ \cup {[entry |-> e, dev |-> d]}]

\* Mutant: the background task is never started.
MutSetupFinishNoStart(e, cs) ==
  /\ hassData' = StoreSlot(hassData, e, setupLocal[e])
  /\ coords' = cs
  /\ RegisterStopListener(e, DeviceId(setupLocal[e]))
  /\ platformState' = [platformState EXCEPT ![e] = "scheduled"]
  /\ platformSaw' = [platformSaw EXCEPT ![e] = NoSlot]
  /\ callLog' = [callLog EXCEPT ![e] = @ \o <<"store", "listen_once", "setup_platforms">>]
  /\ lastResult' = [lastResult EXCEPT ![e] = "setup_true"]
  /\ entryState' = [entryState EXCEPT ![e] = "loaded"]
  /\ setupPc' = [setupPc EXCEPT ![e] = "idle"]
  /\ setupLocal' = [setupLocal EXCEPT ![e] = NoLocal]

\* Mutant: the listener is put on the bus without entry.async_on_unload.
MutSetupFinishNoOnUnload(e, cs) ==
  /\ hassData' = StoreSlot(hassData, e, setupLocal[e])
  /\ coords' = StartBackgroundTask(cs, DeviceId(setupLocal[e]))
  /\ busListeners' = busListeners \cup {[entry |-> e, dev |-> DeviceId(setupLocal[e])]}
  /\ onUnload' = onUnload
  /\ platformState' = [platformState EXCEPT ![e] = "scheduled"]
  /\ platformSaw' = [platformSaw EXCEPT ![e] = NoSlot]
  /\ callLog' = [callLog EXCEPT ![e] =
       @ \o <<"store", "start_background_task", "listen_once", "setup_platforms">>]
  /\ lastResult' = [lastResult EXCEPT ![e] = "setup_true"]
  /\ entryState' = [entryState EXCEPT ![e] = "loaded"]
  /\ setupPc' = [setupPc EXCEPT ![e] = "idle"]
  /\ setupLocal' = [setupLocal EXCEPT ![e] = NoLocal]

\* Lines 85-103, run without suspension once the third refresh returned: store
\* the coordinators, start the background task, register the stop listener,
\* schedule the platforms, return True (the host marks the entry loaded).
SetupFinish(e, cs) ==
  /\ hassData' = StoreSlot(hassData, e, setupLocal[e])
  /\ coords' = StartBackgroundTask(cs, DeviceId(setupLocal[e]))
  /\ RegisterStopListener(e, DeviceId(setupLocal[e]))
  /\ platformState' = [platformState EXCEPT ![e] = "scheduled"]
  /\ platformSaw' = [platformSaw EXCEPT ![e] = NoSlot]
  /\ callLog' = [callLog EXCEPT ![e] =
       @ \o <<"store", "start_background_task", "listen_once", "setup_platforms">>]
  /\ lastResult' = [lastResult EXCEPT ![e] = "setup_true"]
  /\ entryState' = [entryState EXCEPT ![e] = "loaded"]
  /\ setupPc' = [setupPc EXCEPT ![e] = "idle"]
  /\ setupLocal' = [setupLocal EXCEPT ![e] = NoLocal]

\* Mutant: a failed first refresh is swallowed and setup carries on.
MutSetupRaiseContinues(e) == SetupFinish(e, coords)

\* A first refresh raised (ConfigEntryNotReady): the exception leaves
\* async_setup_entry and the host schedules a retry.
SetupRaise(e) ==
  /\ lastResult' = [lastResult EXCEPT ![e] = "setup_raised"]
  /\ entryState' = [entryState EXCEPT ![e] = "setup_retry"]
  /\ setupPc' = [setupPc EXCEPT ![e] = "idle"]
  /\ setupLocal' = [setupLocal EXCEPT ![e] = NoLocal]
  /\ UNCHANGED <<hassData, coords, busListeners, onUnload, platformState,
                 platformSaw, callLog>>

\* Line 81 resumes; line 82 calls the trip coordinator's first refresh.
SetupRefreshDevice(e) ==
  /\ setupPc[e] = "refresh_device"
  /\ \/ /\ coords' = Refreshed(coords, DeviceId(setupLocal[e]))
        /\ setupPc' = [setupPc EXCEPT ![e] = "refresh_trip"]
        /\ callLog' = [callLog EXCEPT ![e] = Append(@, "refresh_trip")]
        /\ UNCHANGED <<entryState, setupLocal, lastResult, hassData, busListeners,
                       onUnload, platformState, platformSaw>>
     \/ SetupRaise(e)
  /\ UNCHANGED <<cfgVars, unloadPc, unloadLocal, accounts, firedListeners,
                 shutdownFired, entities>>

\* Line 82 resumes; line 83 calls the subscription coordinator's first refresh.
SetupRefreshTrip(e) ==
  /\ setupPc[e] = "refresh_trip"
  /\ \/ /\ coords' = Refreshed(coords, TripId(setupLocal[e]))
        /\ setupPc' = [setupPc EXCEPT ![e] = "refresh_subscription"]
        /\ callLog' = [callLog EXCEPT ![e] = Append(@, "refresh_subscription")]
        /\ UNCHANGED <<entryState, setupLocal, lastResult, hassData, busListeners,
                       onUnload, platformState, platformSaw>>
     \/ SetupRaise(e)
  /\ UNCHANGED <<cfgVars, unloadPc, unloadLocal, accounts, firedListeners,
                 shutdownFired, entities>>

\* Line 83 resumes; lines 85-103 follow at once.
SetupRefreshSubscription(e) ==
  /\ setupPc[e] = "refresh_subscription"
  /\ \/ SetupFinish(e, Refreshed(coords, SubscriptionId(setupLocal[e])))
     \/ SetupRaise(e)
  /\ UNCHANGED <<cfgVars, unloadPc, unloadLocal, accounts, firedListeners,
                 shutdownFired, entities>>

\* The platform setup tasks line 101 scheduled run and look their coordinators
\* up in hass.data[DOMAIN][entry.entry_id].
PlatformSetup(e) ==
  /\ platformState[e] = "scheduled"
  /\ platformState' = [platformState EXCEPT ![e] = "setup"]
  /\ platformSaw' = [platformSaw EXCEPT ![e] = IF e \in Loaded THEN SlotOf(e) ELSE NoSlot]
  /\ UNCHANGED <<cfgVars, entryState, setupPc, setupLocal, unloadPc, unloadLocal,
                 lastResult, callLog, hassData, accounts, coords, busListeners,
                 onUnload, firedListeners, shutdownFired, entities>>

\* ----------------------------------------------------- async_unload_entry
\* Line 108: the host calls async_unload_entry on a loaded entry, which
\* suspends in async_unload_platforms. The host's event loop runs the platform
\* setup tasks line 101 created before any unload requested afterwards.
UnloadBegin(e) ==
  /\ entryState[e] = "loaded"
  /\ platformState[e] = "setup"
  /\ unloadPc[e] = "idle"
  /\ unloadPc' = [unloadPc EXCEPT ![e] = "await_platforms"]
  /\ callLog' = [callLog EXCEPT ![e] = <<"unload_platforms">>]
  /\ UNCHANGED <<cfgVars, entryState, setupPc, setupLocal, unloadLocal, lastResult,
                 hassData, accounts, coords, busListeners, onUnload, firedListeners,
                 shutdownFired, platformState, platformSaw, entities>>

\* Lines 109-112: pop the entry's slot, then call stop_background_task on its
\* device coordinator, where the coroutine suspends.
UnloadPopAndStop(e) ==
  /\ hassData' = PopSlot(hassData, e)
  /\ unloadLocal' = [unloadLocal EXCEPT ![e] = SlotOf(e)]
  /\ coords' = StopByUnload(coords, SlotOf(e)[DATA_DEVICE])
  /\ unloadPc' = [unloadPc EXCEPT ![e] = "await_stop"]
  /\ callLog' = [callLog EXCEPT ![e] = @ \o <<"pop", "stop_background_task">>]
  /\ platformState' = [platformState EXCEPT ![e] = "none"]
  /\ UNCHANGED <<entryState, lastResult>>

\* Mutant: the result of async_unload_platforms is ignored: the slot is popped
\* and the task stopped although False is returned.
MutUnloadSkippedStillPops(e) ==
  /\ hassData' = PopSlot(hassData, e)
  /\ unloadLocal' = [unloadLocal EXCEPT ![e] = SlotOf(e)]
  /\ coords' = StopByUnload(coords, SlotOf(e)[DATA_DEVICE])
  /\ unloadPc' = [unloadPc EXCEPT ![e] = "idle"]
  /\ lastResult' = [lastResult EXCEPT ![e] = "unload_false"]
  /\ entryState' = [entryState EXCEPT ![e] = "failed_unload"]
  /\ callLog' = [callLog EXCEPT ![e] = @ \o <<"pop", "stop_background_task">>]
  /\ UNCHANGED platformState

\* Line 114 with unload_ok False: nothing is touched, False is returned (the
\* host marks the entry failed_unload).
UnloadSkipped(e) ==
  /\ unloadPc' = [unloadPc EXCEPT ![e] = "idle"]
  /\ lastResult' = [lastResult EXCEPT ![e] = "unload_false"]
  /\ entryState' = [entryState EXCEPT ![e] = "failed_unload"]
  /\ callLog' = callLog
  /\ UNCHANGED <<hassData, unloadLocal, coords, platformState>>

\* async_unload_platforms returns unload_ok.
UnloadPlatformsDone(e) ==
  /\ unloadPc[e] = "await_platforms"
  /\ \/ UnloadPopAndStop(e)
     \/ UnloadSkipped(e)
  /\ UNCHANGED <<cfgVars, setupPc, setupLocal, accounts, busListeners, onUnload,
                 firedListeners, shutdownFired, platformSaw, entities>>

\* Line 112 resumes, line 114 returns True; the host marks the entry not
\* loaded and runs its async_on_unload callbacks, which take the entry's stop
\* listener off the bus.
UnloadStopDone(e) ==
  /\ unloadPc[e] = "await_stop"
  /\ unloadPc' = [unloadPc EXCEPT ![e] = "idle"]
  /\ lastResult' = [lastResult EXCEPT ![e] = "unload_true"]
  /\ entryState' = [entryState EXCEPT ![e] = "not_loaded"]
  /\ busListeners' = busListeners \ onUnload[e]
  /\ onUnload' = [onUnload EXCEPT ![e] = {}]
  /\ UNCHANGED <<cfgVars, setupPc, setupLocal, unloadLocal, callLog, hassData,
                 accounts, coords, firedListeners, shutdownFired, platformState,
                 platformSaw, entities>>

\* ---------------------------------------------------------- host shutdown
\* Lines 95-96: _stop(event) calls stop_background_task on the device
\* coordinator its setup call closed over.
StopListener(cs, d) == StopByListener(cs, d)

\* EVENT_HOMEASSISTANT_STOP fires: every listen_once listener on the bus is
\* taken off it and called.
ShutdownFire ==
  /\ ~shutdownFired
  /\ shutdownFired' = TRUE
  /\ coords' = [i \in DOMAIN coords |->
                  IF \E l \in busListeners : l.dev = i
                  THEN StopListener(coords, i)[i] ELSE coords[i]]
  /\ firedListeners' = busListeners
  /\ busListeners' = {}
  /\ UNCHANGED <<cfgVars, entryState, setupPc, setupLocal, unloadPc, unloadLocal,
                 lastResult, callLog, hassData, accounts, onUnload, platformState,
                 platformSaw, entities>>

\* ------------------------------------------------------ the specification
\* An entry as it is when the lifecycle starts: the flag still in entry.data
\* (old shape) or already in entry.options (new shape).
LifecycleConfigs(e) ==
  LET base == << <<CONF_USERNAME, UserOf(e)>>, <<CONF_PASSWORD, PassOf(e)>> >>
  IN { [data |-> Append(base, <<CONF_READ_ONLY, PyTrue>>), options |-> EmptyDict],
       [data |-> base, options |-> << <<CONF_READ_ONLY, PyTrue>> >>] }

Init ==
  /\ \E c \in [Entries -> UNION {LifecycleConfigs(e) : e \in Entries}] :
       /\ \A e \in Entries : c[e] \in LifecycleConfigs(e)
       /\ entryData = [e \in Entries |-> c[e].data]
       /\ entryOptions = [e \in Entries |-> c[e].options]
  /\ InitHistory
  /\ InitLifecycle

Next ==
  \/ \E e \in Entries : SetupBegin(e)
  \/ \E e \in Entries : SetupRefreshDevice(e)
  \/ \E e \in Entries : SetupRefreshTrip(e)
  \/ \E e \in Entries : SetupRefreshSubscription(e)
  \/ \E e \in Entries : PlatformSetup(e)
  \/ \E e \in Entries : UnloadBegin(e)
  \/ \E e \in Entries : UnloadPlatformsDone(e)
  \/ \E e \in Entries : UnloadStopDone(e)
  \/ ShutdownFire

Spec == Init /\ [][Next]_vars


\* ------------------------------------------------------ BikeTraxBaseEntity
\* The vendor SDK's Device objects: an id and a name.
Devices == [id : {"d1", "d2"}, name : {"bike", "cargo"}]

\* The coordinator an entity is constructed with: the device or the trip
\* coordinator of the first setup call.
CoordinatorRefs == {DeviceId(1), TripId(1)}

\* Mutant: the device identifier is built from the device's name.
MutEntityIdentifiedByName(c, device) ==
  [coordinator |-> c,
   device |-> device,
   attrs |-> << <<"id", device.id>>, <<"name", device.name>> >>,
   device_info |-> [identifiers |-> {<<BIKETRAX_DOMAIN, device.name>>},
                    model |-> device.name, name |-> device.name],
   addPc |-> "new", listening |-> FALSE, updates |-> 0, log |-> << >>]

\* BikeTraxBaseEntity.__init__(coordinator, device), lines 122-140.
BikeTraxBaseEntity(c, device) ==
  [coordinator |-> c,
   device |-> device,
   attrs |-> << <<"id", device.id>>, <<"name", device.name>> >>,
   device_info |-> [identifiers |-> {<<BIKETRAX_DOMAIN, device.id>>},
                    model |-> device.name, name |-> device.name],
   addPc |-> "new", listening |-> FALSE, updates |-> 0, log |-> << >>]

\* A platform constructs an entity.
CreateEntity(c, device) ==
  /\ Len(entities) < MaxEntities
  /\ entities' = Append(entities, BikeTraxBaseEntity(c, device))
  /\ UNCHANGED <<cfgVars, lifeVars>>

\* Line 144: async_added_to_hass calls the base class's async_added_to_hass,
\* which subscribes the entity to its coordinator, and suspends in the await.
AddedToHassBegin(i) ==
  /\ entities[i].addPc = "new"
  /\ entities' = [entities EXCEPT ![i].addPc = "await_super",
                                  ![i].listening = TRUE]
  /\ UNCHANGED <<cfgVars, lifeVars>>

\* Lines 144-145: the await returns and _handle_coordinator_update is called.
AddedToHassResume(i) ==
  /\ entities[i].addPc = "await_super"
  /\ entities' = [entities EXCEPT ![i].addPc = "added",
                   ![i].log = @ \o <<"super_returned", "handle_by_added">>]
  /\ UNCHANGED <<cfgVars, lifeVars>>

\* The coordinator delivers an update to a subscribed entity, which calls the
\* same _handle_coordinator_update.
CoordinatorUpdate(i) ==
  /\ entities[i].listening
  /\ entities[i].updates < MaxUpdates
  /\ entities' = [entities EXCEPT ![i].updates = @ + 1,
                   ![i].log = Append(@, "handle_by_coordinator")]
  /\ UNCHANGED <<cfgVars, lifeVars>>

NextEnt ==
  \/ \E c \in CoordinatorRefs, device \in Devices : CreateEntity(c, device)
  \/ \E i \in DOMAIN entities : AddedToHassBegin(i)
  \/ \E i \in DOMAIN entities : AddedToHassResume(i)
  \/ \E i \in DOMAIN entities : CoordinatorUpdate(i)

\* Entities are constructed for one entry, already in the new storage shape.
InitEnt ==
  /\ entryData = [e \in Entries |->
                    << <<CONF_USERNAME, UserOf(e)>>, <<CONF_PASSWORD, PassOf(e)>> >>]
  /\ entryOptions = [e \in Entries |-> << <<CONF_READ_ONLY, PyFalse>> >>]
  /\ InitHistory
  /\ InitLifecycle

SpecEnt == InitEnt /\ [][NextEnt]_vars

\* ================================================================ claims
KeySet(d) == {d[i][1] : i \in 1..Len(d)}
SlotKeys == {DATA_DEVICE, DATA_TRIP, DATA_SUBSCRIPTION}
SlotIds(slot) == {slot[k] : k \in DOMAIN slot}
DeviceCoordinators == {d \in DOMAIN coords : coords[d].kind = DATA_DEVICE}

\* C2: after the migration the read-only flag is in the new shape: present in
\* entry.options, absent from entry.data, and equal to the value entry.data
\* held when it held one.
C2_FlagInNewShape ==
  \A e \in Entries :
    migCalls[e] >= 1 =>
      /\ Has(entryOptions[e], CONF_READ_ONLY)
      /\ ~Has(entryData[e], CONF_READ_ONLY)
      /\ Has(migPre[e].data, CONF_READ_ONLY) =>
           Get(entryOptions[e], CONF_READ_ONLY) = Get(migPre[e].data, CONF_READ_ONLY)

C2_Witness ==
  \E e \in Entries :
    /\ migCalls[e] = 1
    /\ Has(migPre[e].data, CONF_READ_ONLY)
    /\ Get(migPre[e].data, CONF_READ_ONLY) = PyTrue
    /\ ~Has(migPre[e].options, CONF_READ_ONLY)
    /\ Get(entryOptions[e], CONF_READ_ONLY) = PyTrue

\* C3: the migration touches nothing but the read-only flag: every other key
\* of entry.data keeps its value (none added, none removed), every other key
\* of entry.options keeps its value, and no other key is added to entry.options.
C3_MigrationFrame ==
  \A e \in Entries :
    migCalls[e] >= 1 =>
      /\ KeySet(entryData[e]) \ {CONF_READ_ONLY} = KeySet(migPre[e].data) \ {CONF_READ_ONLY}
      /\ \A k \in KeySet(migPre[e].data) \ {CONF_READ_ONLY} :
           Get(entryData[e], k) = Get(migPre[e].data, k)
      /\ KeySet(entryOptions[e]) \ {CONF_READ_ONLY} = KeySet(migPre[e].options) \ {CONF_READ_ONLY}
      /\ \A k \in KeySet(migPre[e].options) \ {CONF_READ_ONLY} :
           Get(entryOptions[e], k) = Get(migPre[e].options, k)

C3_Witness ==
  \E e \in Entries :
    /\ migCalls[e] = 1
    /\ Has(migPre[e].data, "other")
    /\ Has(migPre[e].data, CONF_READ_ONLY)
    /\ Has(migPre[e].options, "extra")
    /\ entryOptions[e] # migPre[e].options
    /\ entryData[e] # migPre[e].data

\* C6: the migration acts only when the flag is missing from the options: an
\* entry whose options hold the flag and whose data does not keeps the value
\* of the flag, and a second migration changes nothing.
C6_OnlyIfMissing ==
  \A e \in Entries :
    /\ (/\ migCalls[e] >= 1
        /\ Has(migPre[e].options, CONF_READ_ONLY)
        /\ ~Has(migPre[e].data, CONF_READ_ONLY))
         => Get(entryOptions[e], CONF_READ_ONLY) = Get(migPre[e].options, CONF_READ_ONLY)
    /\ migCalls[e] >= 2 =>
         /\ entryData[e] = migPre[e].data
         /\ entryOptions[e] = migPre[e].options

\* C1: once async_setup_entry has returned True the background task runs (until a
\* stop is called); after async_unload_entry has returned True, and after the
\* stop event has called the entry's listener, stop_background_task has been
\* invoked on the entry's device coordinator and the task is not running.
C1_BackgroundTaskLifecycle ==
  /\ \A e \in Loaded :
       LET d == SlotOf(e)[DATA_DEVICE]
       IN /\ coords[d].startCalls = 1
          /\ (coords[d].stopsByUnload = 0 /\ coords[d].stopsByListener = 0)
               => coords[d].running
  /\ \A e \in Entries :
       lastResult[e] = "unload_true" =>
         /\ unloadLocal[e] # NoSlot
         /\ coords[unloadLocal[e][DATA_DEVICE]].entry = e
         /\ coords[unloadLocal[e][DATA_DEVICE]].stopsByUnload >= 1
         /\ ~coords[unloadLocal[e][DATA_DEVICE]].running
  /\ \A l \in firedListeners :
       /\ coords[l.dev].entry = l.entry
       /\ coords[l.dev].stopsByListener >= 1
       /\ ~coords[l.dev].running

C1_Witness ==
  \E e \in Entries, e2 \in Entries :
    /\ e # e2
    /\ lastResult[e] = "unload_true"
    /\ coords[unloadLocal[e][DATA_DEVICE]].startCalls = 1
    /\ coords[unloadLocal[e][DATA_DEVICE]].stopsByListener = 0
    /\ \E l \in firedListeners :
         /\ l.entry = e2
         /\ coords[l.dev].stopsByUnload = 0
         /\ coords[l.dev].startCalls = 1

\* C4: after a successful setup the entry's slot has exactly the three keys,
\* holding three distinct coordinators of the three kinds, all constructed in
\* one setup call with the one account that call created from the entry's
\* username and password; two entries' coordinators never share an account.
C4_SlotShape ==
  \A e \in Loaded :
    LET slot == SlotOf(e)
        a == coords[slot[DATA_DEVICE]].account
    IN /\ DOMAIN slot = SlotKeys
       /\ Cardinality(SlotIds(slot)) = 3
       /\ \A k \in SlotKeys :
            /\ coords[slot[k]].kind = k
            /\ coords[slot[k]].account = a
            /\ coords[slot[k]].setup = a
            /\ coords[slot[k]].entry = e
       /\ accounts[a].entry = e
       /\ accounts[a].username = Get(entryData[e], CONF_USERNAME)
       /\ accounts[a].password = Get(entryData[e], CONF_PASSWORD)
       /\ \A e2 \in Loaded \ {e} :
            \A k \in SlotKeys, k2 \in SlotKeys :
              coords[slot[k]].account # coords[SlotOf(e2)[k2]].account

C4_Witness ==
  /\ Loaded = Entries
  /\ \A e \in Entries : lastResult[e] = "setup_true"
  /\ Len(accounts) = 3

\* C5: the steps of one entry's setup and unload leave every other entry's slot
\* and that slot's coordinators (background task included) as they were, and
\* when the unload returns True the entry has no key in hass.data[DOMAIN].
C5_RoundTrip ==
  [][\A e \in Entries :
       (setupPc'[e] # setupPc[e] \/ unloadPc'[e] # unloadPc[e]) =>
         /\ \A e2 \in Entries \ {e} :
              /\ (e2 \in Loaded) = (e2 \in Loaded')
              /\ e2 \in Loaded =>
                   /\ SlotOf(e2)' = SlotOf(e2)
                   /\ \A k \in DOMAIN SlotOf(e2) :
                        coords'[SlotOf(e2)[k]] = coords[SlotOf(e2)[k]]
         /\ (unloadPc[e] = "await_stop" /\ unloadPc'[e] = "idle") =>
              /\ lastResult'[e] = "unload_true"
              /\ e \notin Loaded'
     ]_vars

C5_Witness ==
  \E e \in Entries, e2 \in Entries :
    /\ e # e2
    /\ lastResult[e] = "unload_true"
    /\ e \notin Loaded
    /\ e2 \in Loaded
    /\ coords[SlotOf(e2)[DATA_DEVICE]].setup < coords[unloadLocal[e][DATA_DEVICE]].setup
    /\ coords[SlotOf(e2)[DATA_DEVICE]].running
    /\ coords[SlotOf(e2)[DATA_DEVICE]].startCalls = 1


\* C7: the first refreshes run in the order device, trip, subscription; a setup
\* call whose refreshes did not all succeed writes no slot, starts no task,
\* registers no listener and sets up no platform; a successful one stores the
\* slot, starts the task, registers the listener and sets up the platforms in
\* that order, and the platforms find the slot with refreshed coordinators.
SetupOrder ==
  <<"refresh_device", "refresh_trip", "refresh_subscription", "store",
    "start_background_task", "listen_once", "setup_platforms">>

AllListeners == busListeners \cup firedListeners \cup UNION {onUnload[e] : e \in Entries}

C7_SetupOrder ==
  /\ \A k \in 1..Len(accounts) :
       /\ coords[TripId(k)].refreshed => coords[DeviceId(k)].refreshed
       /\ coords[SubscriptionId(k)].refreshed => coords[TripId(k)].refreshed
       /\ ~coords[SubscriptionId(k)].refreshed =>
            /\ coords[DeviceId(k)].startCalls = 0
            /\ \A e \in Loaded : SlotIds(SlotOf(e)) \cap
                 {DeviceId(k), TripId(k), SubscriptionId(k)} = {}
            /\ \A l \in AllListeners : l.dev # DeviceId(k)
  /\ \A e \in Entries :
       /\ lastResult[e] = "setup_raised" =>
            /\ e \notin Loaded
            /\ platformState[e] = "none"
            /\ \A l \in busListeners \cup onUnload[e] : l.entry # e
            /\ \A i \in 1..Len(callLog[e]) : i <= 3 /\ callLog[e][i] = SetupOrder[i]
       /\ (entryState[e] = "loaded" /\ unloadPc[e] = "idle") => callLog[e] = SetupOrder
       /\ platformState[e] = "setup" =>
            /\ DOMAIN platformSaw[e] = SlotKeys
            /\ \A k \in SlotKeys : coords[platformSaw[e][k]].refreshed

C7_Witness ==
  \E e \in Entries, e2 \in Entries :
    /\ lastResult[e] = "setup_raised"
    /\ setupPc[e] = "idle"
    /\ callLog[e] = <<"refresh_device", "refresh_trip">>
    /\ platformState[e2] = "setup"
    /\ callLog[e2] = SetupOrder

\* C8: when async_unload_platforms returns False, async_unload_entry returns
\* False and changes nothing: the slot stays, stop_background_task is not
\* invoked and the task is as it was; only a successful platform unload pops
\* the slot and stops the task, the pop before the stop.
C8_UnloadFailureFrame ==
  [][/\ \A e \in Entries :
          /\ (unloadPc[e] = "await_platforms" /\ unloadPc'[e] = "idle") =>
               /\ lastResult'[e] = "unload_false"
               /\ hassData' = hassData
               /\ coords' = coords
               /\ e \in Loaded'
          /\ (unloadPc[e] = "await_platforms" /\ unloadPc'[e] = "await_stop") =>
               /\ e \in Loaded /\ e \notin Loaded'
               /\ coords'[SlotOf(e)[DATA_DEVICE]].stopsByUnload =
                    coords[SlotOf(e)[DATA_DEVICE]].stopsByUnload + 1
               /\ callLog'[e] = <<"unload_platforms", "pop", "stop_background_task">>
     /\ \A d \in DOMAIN coords :
          coords'[d].stopsByUnload # coords[d].stopsByUnload =>
            \E e \in Entries :
              /\ unloadPc[e] = "await_platforms" /\ unloadPc'[e] = "await_stop"
              /\ d = SlotOf(e)[DATA_DEVICE]
     /\ \A e \in Entries :
          (e \in Loaded /\ e \notin Loaded') =>
            (unloadPc[e] = "await_platforms" /\ unloadPc'[e] = "await_stop")
    ]_vars

C8_Witness ==
  \E e \in Entries :
    /\ lastResult[e] = "unload_false"
    /\ e \in Loaded
    /\ coords[SlotOf(e)[DATA_DEVICE]].running
    /\ coords[SlotOf(e)[DATA_DEVICE]].stopsByUnload = 0

\* C9 as stated: stop_background_task is invoked at most once on a setup's
\* device coordinator, whatever the interleaving of unload and shutdown.
C9_StopAtMostOnce ==
  \A d \in DeviceCoordinators :
    coords[d].stopsByUnload + coords[d].stopsByListener <= 1

\* C9 amended: on a setup's device coordinator stop_background_task is invoked
\* at most once by the shutdown listener and at most once by async_unload_entry;
\* a completed unload has taken the entry's listener off the bus, so every
\* listener on the bus belongs to a setup that has not been unloaded.
C9_StopOncePerCaller ==
  /\ \A d \in DeviceCoordinators :
       /\ coords[d].stopsByUnload <= 1
       /\ coords[d].stopsByListener <= 1
  /\ \A l \in busListeners :
       \/ l.entry \in Loaded /\ SlotOf(l.entry)[DATA_DEVICE] = l.dev
       \/ /\ unloadPc[l.entry] = "await_stop"
          /\ unloadLocal[l.entry][DATA_DEVICE] = l.dev
  /\ \A l \in firedListeners : coords[l.dev].stopsByListener = 1

C9_Witness ==
  \E d \in DeviceCoordinators :
    /\ coords[d].stopsByUnload = 1
    /\ coords[d].stopsByListener = 1
    /\ lastResult[coords[d].entry] = "unload_true"

\* C10: an entity copies its device's id and name: _attrs is exactly
\* {id, name}, the device info has the one identifier (DOMAIN, device.id) and
\* the device's name as name and model, so entities share an identifier exactly
\* when their devices share an id; async_added_to_hass calls
\* _handle_coordinator_update once, after the base class's call has returned.
HandledByAdded(ent) == {i \in 1..Len(ent.log) : ent.log[i] = "handle_by_added"}

C10_EntityAttributes ==
  \A i \in DOMAIN entities :
    LET ent == entities[i]
    IN /\ ent.attrs = << <<"id", ent.device.id>>, <<"name", ent.device.name>> >>
       /\ ent.device_info.identifiers = {<<BIKETRAX_DOMAIN, ent.device.id>>}
       /\ ent.device_info.name = ent.device.name
       /\ ent.device_info.model = ent.device.name
       /\ \A j \in DOMAIN entities :
            (ent.device.id = entities[j].device.id)
              <=> (ent.device_info.identifiers = entities[j].device_info.identifiers)
       /\ ent.addPc = "added" =>
            /\ Cardinality(HandledByAdded(ent)) = 1
            /\ \A h \in HandledByAdded(ent) : h > 1 /\ ent.log[h - 1] = "super_returned"
       /\ ent.addPc # "added" => HandledByAdded(ent) = {}

C10_Witness ==
  \E i \in DOMAIN entities, j \in DOMAIN entities :
    /\ entities[i].device.id # entities[j].device.id
    /\ entities[i].device.name = entities[j].device.name
    /\ entities[i].addPc = "added"
    /\ entities[j].addPc = "added"
    /\ "handle_by_coordinator" \in {entities[i].log[x] : x \in DOMAIN entities[i].log}

====
